---- MODULE Spec2Model ----
(***************************************************************************)
(* Model of busstops/stops/models.py: the four Django models Stop, Route,   *)
(* Trip and TripStop and their set_from_api methods, which populate a       *)
(* record from the JSON-decoded payload of the transit API.                 *)
(*                                                                         *)
(* Python values are tagged records: None, Num(n), Str(s) with s a sequence *)
(* of one-character strings, Point, LineString and Time.  A payload (dict)  *)
(* is a record whose DOMAIN is the set of keys it carries.  Coordinates are *)
(* JSON numbers; the model draws them from small integers.                  *)
(***************************************************************************)
EXTENDS Integers, Sequences, FiniteSets, TLC

VARIABLES self, call, Stop_objects

vars == <<self, call, Stop_objects>>

----------------------------------------------------------------------------
(* Bounds of the model *)

\* number of whole days added to a seconds-of-day value in the payloads
MaxDays == 2

\* longest geometry.coordinates list in a trip payload
MaxCoords == 3

\* how many characters past the column width the longest payload text has
MaxOverLen == 1

----------------------------------------------------------------------------
(* Python values *)

None == [t |-> "None"]

Num(n) == [t |-> "int", v |-> n]

Str(s) == [t |-> "str", v |-> s]

DigitVal ==
  [c \in {"0", "1", "2", "3", "4", "5", "6", "7", "8", "9"} |->
     CASE c = "0" -> 0 [] c = "1" -> 1 [] c = "2" -> 2 [] c = "3" -> 3
       [] c = "4" -> 4 [] c = "5" -> 5 [] c = "6" -> 6 [] c = "7" -> 7
       [] c = "8" -> 8 [] c = "9" -> 9]

RECURSIVE ParseInt(_)
\* decimal value of a string of digits, most significant digit first
ParseInt(s) ==
  IF Len(s) = 0 THEN 0
  ELSE 10 * ParseInt(SubSeq(s, 1, Len(s) - 1)) + DigitVal[s[Len(s)]]

\* int(x): a JSON number is kept, a JSON string is parsed
PyInt(x) == IF x.t = "int" THEN x.v ELSE ParseInt(x.v)

\* truth value of a payload value: None and the empty string are falsy
Truthy(x) ==
  CASE x.t = "None" -> FALSE
    [] x.t = "str" -> Len(x.v) > 0
    [] x.t = "int" -> x.v # 0
    [] OTHER -> TRUE

\* x or y with only None taken as falsy: an empty string is kept
PyOr_NoneOnly(x, y) == IF x.t = "None" THEN y ELSE x

\* x or y
PyOr(x, y) == IF Truthy(x) THEN x ELSE y

\* s[:n]
Slice(x, n) == Str(SubSeq(x.v, 1, IF Len(x.v) < n THEN Len(x.v) ELSE n))

\* max_length of the CharFields and the slice applied to the names
MaxNameLen == 300

\* outcome of a method call: the exception raised ("None" when it returns)
\* and the object as the call leaves it
Return(obj) == [exc |-> "None", obj |-> obj]

Raise(e, obj) == [exc |-> e, obj |-> obj]

----------------------------------------------------------------------------
(* Stop *)

\* Stop(id=i): Django field defaults, '' for a non-null CharField
NewStop(i) ==
  [cls |-> "Stop", id |-> i, stop_code |-> None, stop_name |-> Str(<<>>),
   geom |-> None]

Point(x, y) == [t |-> "Point", x |-> x, y |-> y]

\* set_from_api without the identity check, taking the id from the payload
Stop_set_from_api_SetsId(obj, api_data) ==
  Return([obj EXCEPT
            !.id = Num(PyInt(api_data.stop_id)),
            !.stop_code = Num(PyInt(api_data.stop_code)),
            !.stop_name = Slice(api_data.stop_name, MaxNameLen),
            !.geom = Point(api_data.stop_lon, api_data.stop_lat)])

Stop_set_from_api(obj, api_data) ==
  IF obj.id # None /\ PyInt(api_data.stop_id) # obj.id.v
  THEN Raise("ValueError", obj)
  ELSE Return([obj EXCEPT
                 !.stop_code = Num(PyInt(api_data.stop_code)),
                 !.stop_name = Slice(api_data.stop_name, MaxNameLen),
                 !.geom = Point(api_data.stop_lon, api_data.stop_lat)])

----------------------------------------------------------------------------
(* Route *)

DefaultColor == Str(<<"0", "0", "0", "0", "0", "0">>)

NewRoute(i) ==
  [cls |-> "Route", id |-> i, route_short_name |-> None,
   route_long_name |-> None, route_desc |-> None,
   route_color |-> DefaultColor, route_text_color |-> DefaultColor]

\* set_from_api with the identity check after the names are assigned
Route_set_from_api_AssignFirst(obj, api_data) ==
  LET o1 == [obj EXCEPT
               !.route_short_name = Slice(api_data.route_short_name, MaxNameLen),
               !.route_long_name = Slice(api_data.route_long_name, MaxNameLen)]
  IN  IF obj.id # None /\ PyInt(api_data.route_id) # obj.id.v
      THEN Raise("ValueError", o1)
      ELSE Return([o1 EXCEPT
                     !.route_desc = PyOr(api_data.route_desc, None),
                     !.route_color = PyOr(api_data.route_color, None),
                     !.route_text_color = PyOr(api_data.route_text_color, None)])

Route_set_from_api(obj, api_data) ==
  IF obj.id # None /\ PyInt(api_data.route_id) # obj.id.v
  THEN Raise("ValueError", obj)
  ELSE Return([obj EXCEPT
                 !.route_short_name = Slice(api_data.route_short_name, MaxNameLen),
                 !.route_long_name = Slice(api_data.route_long_name, MaxNameLen),
                 !.route_desc = PyOr(api_data.route_desc, None),
                 !.route_color = PyOr(api_data.route_color, None),
                 !.route_text_color = PyOr(api_data.route_text_color, None)])

----------------------------------------------------------------------------
(* Trip *)

NewTrip(i) ==
  [cls |-> "Trip", id |-> i, trip_headsign |-> Str(<<>>), geom |-> None]

RECURSIVE Comprehension(_)
\* [coord for coord in coords]
Comprehension(coords) ==
  IF coords = <<>> THEN <<>>
  ELSE <<Head(coords)>> \o Comprehension(Tail(coords))

\* LineString with the axes of every point swapped
LineString_SwappedAxes(coords) ==
  [t |-> "LineString",
   points |-> [i \in 1..Len(coords) |-> [x |-> coords[i][2], y |-> coords[i][1]]]]

\* LineString(*coords): the i-th point of the coordinate sequence is set
\* from the i-th argument, x from its first number and y from its second
LineString(coords) ==
  [t |-> "LineString",
   points |-> [i \in 1..Len(coords) |-> [x |-> coords[i][1], y |-> coords[i][2]]]]

Trip_set_from_api(obj, api_data) ==
  IF obj.id # None /\ "route_id" \notin DOMAIN api_data
  THEN Raise("KeyError", obj)
  ELSE IF obj.id # None /\ PyInt(api_data.route_id) # obj.id.v
  THEN Raise("ValueError", obj)
  ELSE LET o1 == [obj EXCEPT !.trip_headsign = Slice(api_data.trip_headsign, MaxNameLen)]
           coords == Comprehension(api_data.geometry.coordinates)
       IN  IF Len(coords) < 2
           THEN Raise("TypeError", o1)
           ELSE Return([o1 EXCEPT !.geom = LineString(coords)])

\* trip.set_from_api(*args): the method takes one argument besides self
Trip_call(obj, args) ==
  IF Len(args) # 1 THEN Raise("TypeError", obj)
  ELSE Trip_set_from_api(obj, args[1])

----------------------------------------------------------------------------
(* TripStop *)

NewTripStop ==
  [cls |-> "TripStop", trip |-> None, stop |-> None, arrival_time |-> None,
   departure_time |-> None, stop_sequence |-> None]

\* an instance of a model class, identified by its primary key
Ref(cls, i) == [t |-> "ref", cls |-> cls, id |-> i]

\* gmtime without the reduction to the seconds of the day
gmtime_NoDayWrap(secs) ==
  [tm_hour |-> secs \div 3600, tm_min |-> (secs % 3600) \div 60,
   tm_sec |-> secs % 60]

\* time.gmtime(t): the calendar fields of t seconds since the epoch in UTC
gmtime(secs) ==
  LET rem == secs % 86400
      hour == rem \div 3600
      rem2 == rem % 3600
  IN  [tm_hour |-> hour, tm_min |-> rem2 \div 60, tm_sec |-> rem2 % 60]

\* datetime.time(hour, minute, second) raises ValueError out of range
TimeOk(tm) ==
  /\ tm.tm_hour \in 0..23
  /\ tm.tm_min \in 0..59
  /\ tm.tm_sec \in 0..59

Time(tm) ==
  [t |-> "time", hour |-> tm.tm_hour, minute |-> tm.tm_min, second |-> tm.tm_sec]

TripStop_set_from_api(obj, api_data, trip) ==
  LET o1 == [obj EXCEPT !.trip = trip] IN
  IF "stop" \notin DOMAIN api_data
  THEN Raise("KeyError", o1)
  ELSE IF PyInt(api_data.stop.stop_id) \notin Stop_objects
  THEN Raise("DoesNotExist", o1)
  ELSE
    LET o2 == [o1 EXCEPT !.stop = Ref("Stop", PyInt(api_data.stop.stop_id))]
        arrtime == gmtime(PyInt(api_data.arrival_time))
    IN  IF ~TimeOk(arrtime)
        THEN Raise("ValueError", o2)
        ELSE
          LET o3 == [o2 EXCEPT !.arrival_time = Time(arrtime)]
              deptime == gmtime(PyInt(api_data.departure_time))
          IN  IF ~TimeOk(deptime)
              THEN Raise("ValueError", o3)
              ELSE Return([o3 EXCEPT
                             !.departure_time = Time(deptime),
                             !.stop_sequence = Num(PyInt(api_data.stop_sequence))])

\* tripstop.set_from_api(*args): the method takes two arguments besides self
TripStop_call(obj, args) ==
  IF Len(args) # 2 THEN Raise("TypeError", obj)
  ELSE TripStop_set_from_api(obj, args[1], args[2])

----------------------------------------------------------------------------
(* Inputs *)

\* primary keys used by the records and the payloads
Ids == {7, 12}

IdStrs == {Str(<<"7">>), Str(<<"1", "2">>)}

\* a text of n characters
Text(n) == Str([i \in 1..n |-> "A"])

Names == {Str(<<" ", "4", "4">>), Text(MaxNameLen + MaxOverLen)}

\* a JSON value for an optional text: null, "" or a text
OptTexts == {None, Str(<<>>), Str(<<"0", "0", "0", "0", "F", "F">>)}

Coords == {<<1, 2>>, <<2, 1>>}

RECURSIVE CoordLists(_)
\* the lists of exactly n coordinate pairs
CoordLists(n) ==
  IF n = 0 THEN {<<>>}
  ELSE {Append(l, c) : l \in CoordLists(n - 1), c \in Coords}

StopPayloads ==
  [stop_id : IdStrs, stop_code : {Str(<<"2", "1">>)}, stop_name : Names,
   stop_lon : {1, 2}, stop_lat : {2}]

RoutePayloads ==
  [route_id : IdStrs, route_short_name : {Str(<<" ", "4", "4">>)},
   route_long_name : {Str(<<"T", "w">>)}, route_desc : OptTexts,
   route_color : OptTexts, route_text_color : OptTexts]

TripGeometries ==
  [type : {"LineString"},
   coordinates : UNION {CoordLists(n) : n \in 0..MaxCoords}]

\* the trips endpoint sends no route_id; a payload may still carry one
TripPayloads ==
  [trip_id : IdStrs, trip_headsign : {Str(<<"T", "w">>)},
   geometry : TripGeometries]
  \cup [trip_id : IdStrs, route_id : IdStrs,
        trip_headsign : {Str(<<"T", "w">>)}, geometry : TripGeometries]

SecondsOfDay == {0, 3599, 67504, 86399}

ArrivalTimes == {Num(d * 86400 + s) : d \in 0..MaxDays, s \in SecondsOfDay}

DepartureTimes == {Num(67707), Num(MaxDays * 86400 + 86399)}

Sequences == {Num(2), Num(-1)}

\* the payload of test_trip_stop, which carries no stop
TestTripStopPayloads ==
  [arrival_time : {Num(67504)}, departure_time : {Num(67707)},
   stop_sequence : {Num(2)}]

TripStopPayloads ==
  [arrival_time : ArrivalTimes, departure_time : DepartureTimes,
   stop_sequence : Sequences, stop : [stop_id : IdStrs]]

----------------------------------------------------------------------------
(* The state machine: one record, populated by calls of its set_from_api *)

Init ==
  /\ self \in {NewStop(i) : i \in {None} \cup {Num(k) : k \in Ids}}
         \cup {NewRoute(i) : i \in {None} \cup {Num(k) : k \in Ids}}
         \cup {NewTrip(i) : i \in {None} \cup {Num(k) : k \in Ids}}
         \cup {NewTripStop}
  /\ call = [method |-> "none", args |-> <<>>, exc |-> "None"]
  /\ Stop_objects = {7}

\* a call of method with args whose outcome is res
Do(method, args, res) ==
  /\ self' = res.obj
  /\ call' = [method |-> method, args |-> args, exc |-> res.exc]
  /\ UNCHANGED Stop_objects

StopSetFromApi ==
  /\ self.cls = "Stop"
  /\ \E api_data \in StopPayloads :
       Do("Stop.set_from_api", <<api_data>>, Stop_set_from_api(self, api_data))

RouteSetFromApi ==
  /\ self.cls = "Route"
  /\ \E api_data \in RoutePayloads :
       Do("Route.set_from_api", <<api_data>>, Route_set_from_api(self, api_data))

\* trip.set_from_api(api_data)
TripSetFromApi ==
  /\ self.cls = "Trip"
  /\ \E api_data \in TripPayloads :
       Do("Trip.set_from_api", <<api_data>>, Trip_call(self, <<api_data>>))

\* trip.set_from_api(api_data, route), as the test calls it
TripSetFromApiRoute ==
  /\ self.cls = "Trip"
  /\ \E api_data \in TripPayloads :
       Do("Trip.set_from_api", <<api_data, Ref("Route", 1)>>,
          Trip_call(self, <<api_data, Ref("Route", 1)>>))

\* tripstop.set_from_api(api_data, trip)
TripStopSetFromApi ==
  /\ self.cls = "TripStop"
  /\ \E api_data \in TripStopPayloads \cup TestTripStopPayloads, k \in Ids :
       Do("TripStop.set_from_api", <<api_data, Ref("Trip", k)>>,
          TripStop_call(self, <<api_data, Ref("Trip", k)>>))

\* tripstop.set_from_api(api_data, stop, trip), as the test calls it
TripStopSetFromApiStop ==
  /\ self.cls = "TripStop"
  /\ \E api_data \in TestTripStopPayloads, k \in Ids, j \in Ids :
       Do("TripStop.set_from_api", <<api_data, Ref("Stop", j), Ref("Trip", k)>>,
          TripStop_call(self, <<api_data, Ref("Stop", j), Ref("Trip", k)>>))

Next ==
  \/ StopSetFromApi
  \/ RouteSetFromApi
  \/ TripSetFromApi
  \/ TripSetFromApiRoute
  \/ TripStopSetFromApi
  \/ TripStopSetFromApiStop

Spec == Init /\ [][Next]_vars

----------------------------------------------------------------------------
(* Properties *)

\* the argument list of the last call holds a payload with key k
LastHas(c, k) == Len(c.args) >= 1 /\ k \in DOMAIN c.args[1]

\* C1: a set_from_api call on a Stop or Route whose id is null succeeds and
\* leaves the record's id equal to the integer value of the payload's
\* stop_id, resp. route_id.
C1_NullIdTakesPayloadId ==
  [][/\ (call'.method = "Stop.set_from_api" /\ self.id = None)
          => (call'.exc = "None"
              /\ self'.id = Num(PyInt(call'.args[1].stop_id)))
     /\ (call'.method = "Route.set_from_api" /\ self.id = None)
          => (call'.exc = "None"
              /\ self'.id = Num(PyInt(call'.args[1].route_id)))]_vars

\* C2: on a Stop or Route whose id is non-null, a call whose payload id
\* differs from the record's id fails with the identity-mismatch error and
\* leaves every field of the record as it was.
C2_MismatchLeavesRecord ==
  [][/\ (/\ call'.method = "Stop.set_from_api"
         /\ self.id # None
         /\ PyInt(call'.args[1].stop_id) # self.id.v)
          => (call'.exc = "ValueError" /\ self' = self)
     /\ (/\ call'.method = "Route.set_from_api"
         /\ self.id # None
         /\ PyInt(call'.args[1].route_id) # self.id.v)
          => (call'.exc = "ValueError" /\ self' = self)]_vars

\* a populated Route has just refused a payload with another id
C2_Witness ==
  /\ call.method = "Route.set_from_api"
  /\ call.exc = "ValueError"
  /\ self.id # None
  /\ PyInt(call.args[1].route_id) # self.id.v
  /\ self.route_short_name # None

\* C3: on a Trip whose id is non-null, set_from_api(api_data) fails with the
\* identity-mismatch error exactly when the integer value of the payload's
\* trip_id differs from the record's id.
C3_TripMismatchKeyedOnTripId ==
  [][(/\ call'.method = "Trip.set_from_api"
      /\ Len(call'.args) = 1
      /\ self.id # None)
       => ((call'.exc = "ValueError")
             <=> (PyInt(call'.args[1].trip_id) # self.id.v))]_vars

\* C4: a Trip mapping called with a payload of at least two coordinates and
\* a resolved Route succeeds and leaves the record's route equal to the
\* Route supplied.
C4_TripRouteFromParameter ==
  [][(/\ call'.method = "Trip.set_from_api"
      /\ Len(call'.args) = 2
      /\ Len(call'.args[1].geometry.coordinates) >= 2
      /\ self.id = None)
       => (/\ call'.exc = "None"
           /\ "route" \in DOMAIN self'
           /\ self'.route = call'.args[2])]_vars

\* C5: a TripStop mapping called with a payload of only arrival_time,
\* departure_time and stop_sequence, a resolved Stop and a resolved Trip
\* succeeds and leaves the record's stop, trip and stop_sequence equal to
\* the supplied Stop, the supplied Trip and the payload's integer.
C5_TripStopResolvedReferences ==
  [][(/\ call'.method = "TripStop.set_from_api"
      /\ Len(call'.args) = 3
      /\ DOMAIN call'.args[1] = {"arrival_time", "departure_time", "stop_sequence"})
       => (/\ call'.exc = "None"
           /\ self'.stop = call'.args[2]
           /\ self'.trip = call'.args[3]
           /\ self'.stop_sequence = Num(PyInt(call'.args[1].stop_sequence)))]_vars

\* the time of day the claim gives for t seconds
ClaimedTime(secs) ==
  [t |-> "time",
   hour |-> (secs % 86400) \div 3600,
   minute |-> ((secs % 86400) % 3600) \div 60,
   second |-> secs % 60]

\* C6: for every non-negative arrival_time and departure_time t of a
\* trip-stop payload whose stop is found, the call succeeds and the stored
\* time is hour (t mod 86400) div 3600, minute ((t mod 86400) mod 3600) div
\* 60, second t mod 60; 67504 gives 18:45:04 and 67707 gives 18:48:27.
C6_TimeOfDayWraps ==
  (/\ call.method = "TripStop.set_from_api"
   /\ Len(call.args) = 2
   /\ LastHas(call, "stop")
   /\ PyInt(call.args[1].stop.stop_id) \in Stop_objects)
    => LET arr == PyInt(call.args[1].arrival_time)
           dep == PyInt(call.args[1].departure_time)
       IN  /\ call.exc = "None"
           /\ self.arrival_time = ClaimedTime(arr)
           /\ self.departure_time = ClaimedTime(dep)
           /\ arr = 67504 =>
                self.arrival_time = [t |-> "time", hour |-> 18, minute |-> 45, second |-> 4]
           /\ dep = 67707 =>
                self.departure_time = [t |-> "time", hour |-> 18, minute |-> 48, second |-> 27]

\* a time a whole day past 67504 has been stored as 18:45:04
C6_Witness ==
  /\ call.method = "TripStop.set_from_api"
  /\ call.exc = "None"
  /\ PyInt(call.args[1].arrival_time) = 86400 + 67504
  /\ PyInt(call.args[1].departure_time) >= 86400
  /\ self.arrival_time = [t |-> "time", hour |-> 18, minute |-> 45, second |-> 4]
  /\ self.departure_time = [t |-> "time", hour |-> 23, minute |-> 59, second |-> 59]

\* C7: after a successful Trip mapping of a payload with n >= 2 coordinate
\* pairs the path has exactly n points and its i-th point is the i-th pair,
\* longitude first.
C7_PathPreservesOrder ==
  (call.method = "Trip.set_from_api" /\ call.exc = "None")
    => LET coords == call.args[1].geometry.coordinates
       IN  /\ Len(coords) >= 2
           /\ self.geom.t = "LineString"
           /\ DOMAIN self.geom.points = 1..Len(coords)
           /\ \A i \in 1..Len(coords) :
                /\ self.geom.points[i].x = coords[i][1]
                /\ self.geom.points[i].y = coords[i][2]

\* a path of three points, not all the same, has been stored
C7_Witness ==
  /\ call.method = "Trip.set_from_api"
  /\ call.exc = "None"
  /\ Len(call.args[1].geometry.coordinates) = 3
  /\ call.args[1].geometry.coordinates[1] # call.args[1].geometry.coordinates[2]
  /\ call.args[1].geometry.coordinates[3] = call.args[1].geometry.coordinates[1]
  /\ Len(self.geom.points) = 3

\* the value the claim gives for an optional text of the payload
ClaimedOptional(x) ==
  IF x = None \/ x = Str(<<>>) THEN None ELSE x

\* C8: after a successful Route.set_from_api each of route_desc,
\* route_color and route_text_color is the payload's value when that is
\* non-empty and null when it is null or the empty string, never the empty
\* string and never the default colour put in its place.
C8_RouteEmptyIsNull ==
  (call.method = "Route.set_from_api" /\ call.exc = "None")
    => LET api_data == call.args[1]
       IN  /\ self.route_desc = ClaimedOptional(api_data.route_desc)
           /\ self.route_color = ClaimedOptional(api_data.route_color)
           /\ self.route_text_color = ClaimedOptional(api_data.route_text_color)
           /\ self.route_desc # Str(<<>>)
           /\ self.route_color # Str(<<>>)
           /\ self.route_text_color # Str(<<>>)

\* a Route took an empty colour, a null text colour and a description
C8_Witness ==
  /\ call.method = "Route.set_from_api"
  /\ call.exc = "None"
  /\ call.args[1].route_color = Str(<<>>)
  /\ call.args[1].route_text_color = None
  /\ Truthy(call.args[1].route_desc)
  /\ self.route_color = None
  /\ self.route_text_color = None
  /\ self.route_desc = call.args[1].route_desc

\* C9: the id of a Stop, Route or Trip whose id is non-null is the same
\* after every set_from_api call, failed or not.
C9_IdImmutable ==
  [][(self.cls \in {"Stop", "Route", "Trip"} /\ self.id # None)
       => self'.id = self.id]_vars

\* a Stop with an id was populated and then refused a payload with another id
C9_Witness ==
  /\ call.method = "Stop.set_from_api"
  /\ call.exc = "ValueError"
  /\ self.id # None
  /\ self.stop_code # None
  /\ PyInt(call.args[1].stop_id) # self.id.v

\* C10: a TripStop.set_from_api(api_data, trip) that fails because no Stop
\* has the payload's stop id leaves the record as it was.
C10_NotFoundLeavesRecord ==
  [][(call'.method = "TripStop.set_from_api" /\ call'.exc = "DoesNotExist")
       => self' = self]_vars

====
